---- MODULE Spec2Model ----
(***************************************************************************)
(* SplineBase (src/src/spline.cpp): a handle that owns one SISL curve,      *)
(* caches its length and maximum curvature, bounds-checks evaluations and   *)
(* computes the tracking errors of a path follower.                         *)
(*                                                                          *)
(* The SISL kernel is external.  A curve resource is an identifier with a   *)
(* release count; what the kernel computes from a curve (its domain,        *)
(* length, curvature) is a fixed function of the geometry the resource      *)
(* carries (KEnd, KLength, KCurvature).                                     *)
(***************************************************************************)
EXTENDS Integers, FiniteSets, Sequences, TLC

\* ---------------------------------------------------------------- bounds
MaxRes == 3          \* curve resources the kernel hands out in one run

Handles == {1, 2}
Res == 1..MaxRes
Geoms == {1, 2, 3}               \* geometries a fit or a simplification yields
\* Parameters a caller passes: below every domain, the ends of the domains
\* [0, 2] and [0, 4], and above every domain.
Params == {-1, 0, 2, 4, 5}
KStatus == {-1, 0, 1}            \* SISL status: <0 error, 0 ok, >0 warning
KStatus01 == {0, 1}              \* for the calls that test "status != 0"

\* Value of a double member the constructor leaves uninitialised.
Undef == -99
\* geometric_resolution, the same for every handle of a run.
GeoRes == 1

\* ------------------------------------------------------- the SISL kernel
\* s1363 / s1356 / s1357: the parameter domain of a curve, [0, KEnd].
KEnd(g) == CASE g = 1 -> 2 [] g = 2 -> 4 [] OTHER -> 2
\* s1240: the arc length of a curve; geometry 3 is degenerate (all points equal).
KLength(g) == CASE g = 1 -> 1 [] g = 2 -> 2 [] OTHER -> 0
\* s2550: the curvature of a curve at a parameter.
KCurvature(g, p) == IF g = 3 THEN 0 ELSE (g + p) % 3

VARIABLES
    alive,              \* alive[h]: the object exists (constructed, not destroyed)
    curve,              \* curve[h]: the SISLCurve* held, 0 is the null pointer
    start_param,
    end_param,
    has_curve_length,
    curve_length,
    has_curvature_max,
    curvature_max,
    resGeom,            \* kernel: geometry of each resource, 0 when never allocated
    relCount,           \* kernel: how often freeCurve was called on each resource
    last                \* the last call: what it was and how it ended

vars == <<alive, curve, start_param, end_param, has_curve_length, curve_length,
          has_curvature_max, curvature_max, resGeom, relCount, last>>

handleVars == <<alive, curve, start_param, end_param, has_curve_length, curve_length,
                has_curvature_max, curvature_max>>
cacheVars == <<has_curve_length, curve_length, has_curvature_max, curvature_max>>
kernelVars == <<resGeom, relCount>>

NoUnit == [kind |-> "none", v |-> 0]

\* The record of a call: operation, handle, argument, outcome ("ok" or the
\* exception thrown, "crash" for a null dereference), what the kernel was given
\* ("none": not called, "ok": a curve, "null": a null curve), the value
\* returned and the unit parameter the call derived.
Ret(op, h, p, outcome, kernel, value, unit) ==
    [op |-> op, h |-> h, p |-> p, outcome |-> outcome, kernel |-> kernel,
     value |-> value, unit |-> unit]

Allocated == {r \in Res : resGeom[r] # 0}
Live == {r \in Allocated : relCount[r] = 0}
CanAlloc == Cardinality(Allocated) < MaxRes
NewRes == Cardinality(Allocated) + 1
GeomOf(h) == resGeom[curve[h]]

Min(a, b) == IF a < b THEN a ELSE b
SetMax(S) == CHOOSE x \in S : \A y \in S : y <= x

\* freeCurve(c): the release count is kept up to 2, enough to see a double release.
FreeCurve(r) == [relCount EXCEPT ![r] = Min(@ + 1, 2)]

Init ==
    /\ alive = [h \in Handles |-> FALSE]
    /\ curve = [h \in Handles |-> 0]
    /\ start_param = [h \in Handles |-> Undef]
    /\ end_param = [h \in Handles |-> Undef]
    /\ has_curve_length = [h \in Handles |-> FALSE]
    /\ curve_length = [h \in Handles |-> -1]
    /\ has_curvature_max = [h \in Handles |-> FALSE]
    /\ curvature_max = [h \in Handles |-> -1]
    /\ resGeom = [r \in Res |-> 0]
    /\ relCount = [r \in Res |-> 0]
    /\ last = Ret("init", 0, 0, "ok", "none", 0, NoUnit)

\* ------------------------------------------------------------- lifecycle
\* SplineBase(int dim, double geometric_resolution, int curve_order)
ConstructEmpty(h) ==
    /\ ~alive[h]
    /\ alive' = [alive EXCEPT ![h] = TRUE]
    /\ curve' = [curve EXCEPT ![h] = 0]
    /\ start_param' = [start_param EXCEPT ![h] = Undef]
    /\ end_param' = [end_param EXCEPT ![h] = Undef]
    /\ has_curve_length' = [has_curve_length EXCEPT ![h] = FALSE]
    /\ curve_length' = [curve_length EXCEPT ![h] = -1]
    /\ has_curvature_max' = [has_curvature_max EXCEPT ![h] = FALSE]
    /\ curvature_max' = [curvature_max EXCEPT ![h] = -1]
    /\ UNCHANGED kernelVars
    /\ last' = Ret("construct", h, 0, "ok", "none", 0, NoUnit)

\* SplineBase(double geometric_resolution, SISLCurve* curve): the caller hands
\* over a curve the kernel made for it.  When s1363 fails the constructor
\* throws, no object exists and the curve stays the caller's.
ConstructFromCurve(h, g, st) ==
    /\ ~alive[h]
    /\ CanAlloc
    /\ IF st # 0
       THEN /\ UNCHANGED <<handleVars, kernelVars>>
            /\ last' = Ret("constructFromCurve", h, 0, "runtime_error", "ok", 0, NoUnit)
       ELSE /\ resGeom' = [resGeom EXCEPT ![NewRes] = g]
            /\ UNCHANGED relCount
            /\ alive' = [alive EXCEPT ![h] = TRUE]
            /\ curve' = [curve EXCEPT ![h] = NewRes]
            /\ start_param' = [start_param EXCEPT ![h] = 0]
            /\ end_param' = [end_param EXCEPT ![h] = KEnd(g)]
            /\ has_curve_length' = [has_curve_length EXCEPT ![h] = FALSE]
            /\ curve_length' = [curve_length EXCEPT ![h] = -1]
            /\ has_curvature_max' = [has_curvature_max EXCEPT ![h] = FALSE]
            /\ curvature_max' = [curvature_max EXCEPT ![h] = -1]
            /\ last' = Ret("constructFromCurve", h, 0, "ok", "ok", 0, NoUnit)

\* A copy constructor that copies the pointer instead of the curve.
CopyConstructShallow(h, src) ==
    /\ ~alive[h]
    /\ alive[src]
    /\ curve[src] # 0
    /\ alive' = [alive EXCEPT ![h] = TRUE]
    /\ curve' = [curve EXCEPT ![h] = curve[src]]
    /\ start_param' = [start_param EXCEPT ![h] = start_param[src]]
    /\ end_param' = [end_param EXCEPT ![h] = end_param[src]]
    /\ has_curve_length' = [has_curve_length EXCEPT ![h] = has_curve_length[src]]
    /\ curve_length' = [curve_length EXCEPT ![h] = curve_length[src]]
    /\ has_curvature_max' = [has_curvature_max EXCEPT ![h] = has_curvature_max[src]]
    /\ curvature_max' = [curvature_max EXCEPT ![h] = curvature_max[src]]
    /\ UNCHANGED kernelVars
    /\ last' = Ret("copy", h, src, "ok", "none", 0, NoUnit)

\* SplineBase(SplineBase const& source): copyCurve makes a new resource with
\* the source's geometry; every other member is copied.
CopyConstruct(h, src) ==
    /\ ~alive[h]
    /\ alive[src]
    /\ curve[src] # 0 => CanAlloc
    /\ alive' = [alive EXCEPT ![h] = TRUE]
    /\ IF curve[src] # 0
       THEN /\ resGeom' = [resGeom EXCEPT ![NewRes] = resGeom[curve[src]]]
            /\ curve' = [curve EXCEPT ![h] = NewRes]
       ELSE /\ UNCHANGED resGeom
            /\ curve' = [curve EXCEPT ![h] = 0]
    /\ UNCHANGED relCount
    /\ start_param' = [start_param EXCEPT ![h] = start_param[src]]
    /\ end_param' = [end_param EXCEPT ![h] = end_param[src]]
    /\ has_curve_length' = [has_curve_length EXCEPT ![h] = has_curve_length[src]]
    /\ curve_length' = [curve_length EXCEPT ![h] = curve_length[src]]
    /\ has_curvature_max' = [has_curvature_max EXCEPT ![h] = has_curvature_max[src]]
    /\ curvature_max' = [curvature_max EXCEPT ![h] = curvature_max[src]]
    /\ last' = Ret("copy", h, src, "ok", IF curve[src] # 0 THEN "ok" ELSE "none", 0, NoUnit)

\* operator=: self-assignment returns at once; otherwise the curve member is
\* overwritten with a copy of the source's curve (the curve held before is
\* not released) and every other member is copied.
Assign(h, src) ==
    /\ alive[h]
    /\ alive[src]
    /\ (h # src /\ curve[src] # 0) => CanAlloc
    /\ IF h = src
       THEN /\ UNCHANGED <<handleVars, kernelVars>>
            /\ last' = Ret("assign", h, src, "ok", "none", 0, NoUnit)
       ELSE /\ IF curve[src] # 0
               THEN /\ resGeom' = [resGeom EXCEPT ![NewRes] = resGeom[curve[src]]]
                    /\ curve' = [curve EXCEPT ![h] = NewRes]
               ELSE /\ UNCHANGED resGeom
                    /\ curve' = [curve EXCEPT ![h] = 0]
            /\ UNCHANGED <<relCount, alive>>
            /\ start_param' = [start_param EXCEPT ![h] = start_param[src]]
            /\ end_param' = [end_param EXCEPT ![h] = end_param[src]]
            /\ has_curve_length' = [has_curve_length EXCEPT ![h] = has_curve_length[src]]
            /\ curve_length' = [curve_length EXCEPT ![h] = curve_length[src]]
            /\ has_curvature_max' = [has_curvature_max EXCEPT ![h] = has_curvature_max[src]]
            /\ curvature_max' = [curvature_max EXCEPT ![h] = curvature_max[src]]
            /\ last' = Ret("assign", h, src, "ok",
                           IF curve[src] # 0 THEN "ok" ELSE "none", 0, NoUnit)

\* ~SplineBase: releases the curve when one is held.  The object is gone
\* afterwards; its slot is reset so that a new object can be constructed in it.
Destroy(h) ==
    /\ alive[h]
    /\ relCount' = IF curve[h] # 0 THEN FreeCurve(curve[h]) ELSE relCount
    /\ UNCHANGED resGeom
    /\ alive' = [alive EXCEPT ![h] = FALSE]
    /\ curve' = [curve EXCEPT ![h] = 0]
    /\ start_param' = [start_param EXCEPT ![h] = Undef]
    /\ end_param' = [end_param EXCEPT ![h] = Undef]
    /\ has_curve_length' = [has_curve_length EXCEPT ![h] = FALSE]
    /\ curve_length' = [curve_length EXCEPT ![h] = -1]
    /\ has_curvature_max' = [has_curvature_max EXCEPT ![h] = FALSE]
    /\ curvature_max' = [curvature_max EXCEPT ![h] = -1]
    /\ last' = Ret("destroy", h, 0, "ok", IF curve[h] # 0 THEN "ok" ELSE "none", 0, NoUnit)

\* A clear that releases the curve and keeps the pointer.
ClearKeepPointer(h) ==
    /\ alive[h]
    /\ relCount' = IF curve[h] # 0 THEN FreeCurve(curve[h]) ELSE relCount
    /\ UNCHANGED <<resGeom, handleVars>>
    /\ last' = Ret("clear", h, curve[h], "ok", IF curve[h] # 0 THEN "ok" ELSE "none", 0, NoUnit)

\* clear(): releases the curve and nulls the pointer; nothing else is touched.
Clear(h) ==
    /\ alive[h]
    /\ relCount' = IF curve[h] # 0 THEN FreeCurve(curve[h]) ELSE relCount
    /\ curve' = [curve EXCEPT ![h] = 0]
    /\ UNCHANGED <<resGeom, alive, start_param, end_param, cacheVars>>
    /\ last' = Ret("clear", h, curve[h], "ok", IF curve[h] # 0 THEN "ok" ELSE "none", 0, NoUnit)

\* interpolate(points, parameters): start_param = 0, the held curve is
\* released and nulled, then s1356/s1357 is called.  st = 0: a new curve and
\* its end parameter; st > 0: the kernel made the curve and warns, the call
\* throws with the curve held; st < 0: no curve, the call throws.
Interpolate(h, g, st) ==
    /\ alive[h]
    /\ st >= 0 => CanAlloc
    /\ relCount' = IF curve[h] # 0 THEN FreeCurve(curve[h]) ELSE relCount
    /\ start_param' = [start_param EXCEPT ![h] = 0]
    /\ IF st >= 0
       THEN /\ resGeom' = [resGeom EXCEPT ![NewRes] = g]
            /\ curve' = [curve EXCEPT ![h] = NewRes]
            /\ end_param' = [end_param EXCEPT ![h] = KEnd(g)]
       ELSE /\ UNCHANGED <<resGeom, end_param>>
            /\ curve' = [curve EXCEPT ![h] = 0]
    /\ UNCHANGED <<alive, cacheVars>>
    /\ last' = Ret("interpolate", h, 0, IF st = 0 THEN "ok" ELSE "runtime_error",
                   "ok", 0, NoUnit)

\* simplify(tolerance): throws on a handle without curve; s1940 makes a new
\* curve, which replaces the held one; on a kernel failure nothing changes.
Simplify(h, g, st) ==
    /\ alive[h]
    /\ (curve[h] # 0 /\ st = 0) => CanAlloc
    /\ IF curve[h] = 0
       THEN /\ UNCHANGED <<handleVars, kernelVars>>
            /\ last' = Ret("simplify", h, 0, "runtime_error", "none", 0, NoUnit)
       ELSE IF st # 0
       THEN /\ UNCHANGED <<handleVars, kernelVars>>
            /\ last' = Ret("simplify", h, 0, "runtime_error", "ok", 0, NoUnit)
       ELSE /\ resGeom' = [resGeom EXCEPT ![NewRes] = g]
            /\ relCount' = FreeCurve(curve[h])
            /\ curve' = [curve EXCEPT ![h] = NewRes]
            /\ UNCHANGED <<alive, start_param, end_param, cacheVars>>
            /\ last' = Ret("simplify", h, 0, "ok", "ok", 0, NoUnit)

\* Two handles, constructed, copied, assigned, refitted and destroyed.
Lifecycle ==
    \/ \E h \in Handles : ConstructEmpty(h)
    \/ \E h \in Handles, g \in Geoms, st \in KStatus01 : ConstructFromCurve(h, g, st)
    \/ \E h \in Handles, src \in Handles : CopyConstruct(h, src)
    \/ \E h \in Handles, src \in Handles : Assign(h, src)
    \/ \E h \in Handles : Destroy(h)
    \/ \E h \in Handles : Clear(h)
    \/ \E h \in Handles, g \in Geoms, st \in KStatus : Interpolate(h, g, st)
    \/ \E h \in Handles, g \in Geoms, st \in KStatus01 : Simplify(h, g, st)

\* The handle the queries are made on: the first one.
Q == CHOOSE h \in Handles : \A g \in Handles : h <= g

\* One handle, constructed, refitted, simplified, cleared and destroyed.
Lifecycle1 ==
    \/ ConstructEmpty(Q)
    \/ \E g \in Geoms, st \in KStatus01 : ConstructFromCurve(Q, g, st)
    \/ Destroy(Q)
    \/ Clear(Q)
    \/ \E g \in Geoms, st \in KStatus : Interpolate(Q, g, st)
    \/ \E g \in Geoms, st \in KStatus01 : Simplify(Q, g, st)

\* ------------------------------------------------------ kernel evaluation
\* s1227: the point of a curve at a parameter; geometry 1 runs along the X
\* axis, geometry 2 along the diagonal, geometry 3 is a single point.
KPoint(g, p) == CASE g = 1 -> <<p, 0>> [] g = 2 -> <<p, p>> [] OTHER -> <<0, 0>>
\* s2559: the first two components of the tangent of the Frenet frame.
KTangent(g, p) == CASE g = 1 -> <<1, 0>> [] g = 2 -> <<1, 1>> [] OTHER -> <<0, 0>>
\* curve->in
KPointCount(g) == g + 2

\* What a kernel routine is given: the curve held, or a null pointer.
KArg(h) == IF curve[h] = 0 THEN "null" ELSE "ok"
\* How a call ends whose kernel status is checked with "status != 0".  A
\* kernel routine given a null curve either reports an error (st # 0) or
\* dereferences it (st = 0).
KOut(h, st) ==
    IF curve[h] = 0 THEN (IF st = 0 THEN "crash" ELSE "runtime_error")
    ELSE IF st # 0 THEN "runtime_error" ELSE "ok"

\* The comparison "_param < start_param || _param > end_param".  A bound the
\* constructor left uninitialised compares either way (ub).
DomainThrows(h, p, ub) ==
    \/ start_param[h] # Undef /\ p < start_param[h]
    \/ end_param[h] # Undef /\ p > end_param[h]
    \/ (start_param[h] = Undef \/ end_param[h] = Undef) /\ ub

\* ------------------------------------------------------------ pure maths
\* Angles are counted in units of pi/4.
PI == 4
\* The result of an operation on a vector of length zero.
NaN == -98

Abs(x) == IF x < 0 THEN -x ELSE x
\* The vectors whose bearing is a multiple of pi/4, and the zero vector.
Dirs == {v \in ((-2)..2) \X ((-2)..2) : v[1] = 0 \/ v[2] = 0 \/ Abs(v[1]) = Abs(v[2])}

\* normalize() followed by atan2(y, x).  Normalising the zero vector gives NaN.
Atan2(y, x) ==
    CASE x = 0 /\ y = 0 -> NaN
      [] y = 0 /\ x > 0 -> 0
      [] y > 0 /\ x > 0 -> 1
      [] y > 0 /\ x = 0 -> 2
      [] y > 0 /\ x < 0 -> 3
      [] y = 0 /\ x < 0 -> PI
      [] y < 0 /\ x < 0 -> -3
      [] y < 0 /\ x = 0 -> -2
      [] OTHER -> -1

\* getHeading on a Frenet frame whose tangent is t.
HeadingOf(t) == Atan2(t[2], t[1])

\* headingError: one correction by 2 pi.  Every comparison with NaN is false.
HeadingErrorCalc(act, heading) ==
    IF heading = NaN THEN NaN
    ELSE LET error == act - heading
         IN  IF error > PI THEN error - 2 * PI
             ELSE IF error < -PI THEN error + 2 * PI
             ELSE error

\* distanceError: the returned double d is given by its sign and by d * d.
\* "angle >= 0.0" is false for NaN.
DistanceErrorCalc(pt, cp, heading) ==
    LET ex == pt[1] - cp[1]
        ey == pt[2] - cp[2]
        bearing == Atan2(ey, ex)
        nonneg == bearing # NaN /\ heading # NaN /\ bearing - heading >= 0
    IN  [neg |-> ~nonneg, norm2 |-> ex * ex + ey * ey]

\* ---------------------------------------------------------------- queries
\* getPointCount: curve->in, whatever curve is.
GetPointCount(h) ==
    /\ alive[h]
    /\ UNCHANGED <<handleVars, kernelVars>>
    /\ last' = IF curve[h] = 0
               THEN Ret("getPointCount", h, 0, "crash", "null", 0, NoUnit)
               ELSE Ret("getPointCount", h, 0, "ok", "none", KPointCount(GeomOf(h)), NoUnit)

\* getPoint / getCurvature / getVariationOfCurvature: the domain check, then
\* the kernel, then the status check.
Checked(op, h, p, st, ub, value) ==
    /\ alive[h]
    /\ UNCHANGED <<handleVars, kernelVars>>
    /\ last' = IF DomainThrows(h, p, ub)
               THEN Ret(op, h, p, "out_of_range", "none", 0, NoUnit)
               ELSE Ret(op, h, p, KOut(h, st), KArg(h),
                        IF KOut(h, st) = "ok" THEN value ELSE 0, NoUnit)

GetPoint(h, p, st, ub) ==
    Checked("getPoint", h, p, st, ub, KPoint(GeomOf(h), p))

GetCurvature(h, p, st, ub) ==
    Checked("getCurvature", h, p, st, ub, KCurvature(GeomOf(h), p))

\* The kernel's variation of curvature is not modelled further: the value is
\* the curve and the parameter it was asked for.
GetVariationOfCurvature(h, p, st, ub) ==
    Checked("getVariationOfCurvature", h, p, st, ub, <<GeomOf(h), p>>)

\* getFrenetFrame: no domain check and the status is ignored.  When the kernel
\* reports an error the frame is whatever t, n, b held.
Garbage == <<Undef, Undef>>
FrenetTangent(h, p, st) == IF curve[h] = 0 \/ st # 0 THEN Garbage ELSE KTangent(GeomOf(h), p)
FrenetOut(h, st) == IF curve[h] = 0 /\ st = 0 THEN "crash" ELSE "ok"

GetFrenetFrame(h, p, st) ==
    /\ alive[h]
    /\ UNCHANGED <<handleVars, kernelVars>>
    /\ last' = Ret("getFrenetFrame", h, p, FrenetOut(h, st), KArg(h),
                   FrenetTangent(h, p, st), NoUnit)

\* getHeading: the bearing of the tangent getFrenetFrame returned.
HeadingAt(h, p, st) ==
    IF FrenetTangent(h, p, st) = Garbage THEN Undef ELSE HeadingOf(FrenetTangent(h, p, st))

GetHeading(h, p, st) ==
    /\ alive[h]
    /\ UNCHANGED <<handleVars, kernelVars>>
    /\ last' = Ret("getHeading", h, p, FrenetOut(h, st), KArg(h), HeadingAt(h, p, st), NoUnit)

\* getCurveLength as a call: the outcome, what the kernel was given, the value
\* and the cache afterwards.
CurveLengthCall(h, st) ==
    IF has_curve_length[h]
    THEN [outcome |-> "ok", kernel |-> "none", value |-> curve_length[h],
          has |-> TRUE, len |-> curve_length[h]]
    ELSE IF KOut(h, st) = "ok"
    THEN [outcome |-> "ok", kernel |-> "ok", value |-> KLength(GeomOf(h)),
          has |-> TRUE, len |-> KLength(GeomOf(h))]
    ELSE [outcome |-> KOut(h, st), kernel |-> KArg(h), value |-> 0,
          has |-> FALSE, len |-> curve_length[h]]

GetCurveLength(h, st) ==
    LET c == CurveLengthCall(h, st)
    IN  /\ alive[h]
        /\ has_curve_length' = [has_curve_length EXCEPT ![h] = c.has]
        /\ curve_length' = [curve_length EXCEPT ![h] = c.len]
        /\ UNCHANGED <<alive, curve, start_param, end_param, has_curvature_max,
                       curvature_max, kernelVars>>
        /\ last' = Ret("getCurveLength", h, 0, c.outcome, c.kernel, c.value, NoUnit)

\* (end_param - start_param) / length in doubles: a zero length gives an
\* infinity, or NaN when the domain is empty too; it never throws.
UnitOf(h, len) ==
    IF start_param[h] = Undef \/ end_param[h] = Undef THEN [kind |-> "garbage", v |-> 0]
    ELSE IF len = 0
    THEN (IF end_param[h] = start_param[h] THEN [kind |-> "nan", v |-> 0]
          ELSE [kind |-> "inf", v |-> 0])
    ELSE [kind |-> "finite", v |-> (end_param[h] - start_param[h]) \div len]

GetUnitParameter(h, st) ==
    LET c == CurveLengthCall(h, st)
        u == IF c.outcome = "ok" THEN UnitOf(h, c.len) ELSE NoUnit
    IN  /\ alive[h]
        /\ has_curve_length' = [has_curve_length EXCEPT ![h] = c.has]
        /\ curve_length' = [curve_length EXCEPT ![h] = c.len]
        /\ UNCHANGED <<alive, curve, start_param, end_param, has_curvature_max,
                       curvature_max, kernelVars>>
        /\ last' = Ret("getUnitParameter", h, 0, c.outcome, c.kernel, u, u)

\* The parameters "for (p = start_param; p <= end_param; p += delPara)" visits.
\* Adding an infinity or NaN ends the loop after the first parameter.
Samples(h, del) ==
    IF del.kind = "finite" /\ del.v > 0
    THEN {p \in start_param[h]..end_param[h] : (p - start_param[h]) % del.v = 0}
    ELSE {start_param[h]}

\* getCurvatureMax: the cached value, or the largest curvature sampled.
\* curvature_max is set to 0 before the loop, also when the loop throws.
GetCurvatureMax(h, st) ==
    LET c == CurveLengthCall(h, st)
        u == IF c.outcome = "ok" THEN UnitOf(h, c.len) ELSE NoUnit
        del == [kind |-> u.kind, v |-> u.v * GeoRes]
        cached == has_curvature_max[h]
        lenOk == c.outcome = "ok"
        outcome == IF cached THEN "ok" ELSE IF lenOk THEN KOut(h, st) ELSE c.outcome
        newmax == IF cached THEN curvature_max[h]
                  ELSE IF ~lenOk THEN curvature_max[h]
                  ELSE IF outcome # "ok" THEN 0
                  ELSE SetMax({0} \cup {KCurvature(GeomOf(h), p) : p \in Samples(h, del)})
    IN  /\ alive[h]
        /\ has_curve_length' = [has_curve_length EXCEPT ![h] = IF cached THEN @ ELSE c.has]
        /\ curve_length' = [curve_length EXCEPT ![h] = IF cached THEN @ ELSE c.len]
        /\ has_curvature_max' = [has_curvature_max EXCEPT ![h] = cached \/ outcome = "ok"]
        /\ curvature_max' = [curvature_max EXCEPT ![h] = newmax]
        /\ UNCHANGED <<alive, curve, start_param, end_param, kernelVars>>
        /\ last' = Ret("getCurvatureMax", h, 0, outcome,
                       IF cached THEN "none" ELSE IF lenOk THEN KArg(h) ELSE c.kernel,
                       IF outcome = "ok" THEN newmax ELSE 0,
                       IF cached THEN NoUnit ELSE u)

\* findClosestPoints: s1953, status checked with "!= 0".  found says what the
\* kernel returned: isolated points, ambiguous segments, or neither.
FindClosestPoints(h, st, found) ==
    /\ alive[h]
    /\ UNCHANGED <<handleVars, kernelVars>>
    /\ last' = Ret("findClosestPoints", h, 0, KOut(h, st), KArg(h),
                   IF KOut(h, st) = "ok" THEN found ELSE "none", NoUnit)

\* findOneClosestPoint: the first point, else the start of the first segment,
\* else a logic_error.
FindOneClosestPoint(h, st, found) ==
    /\ alive[h]
    /\ UNCHANGED <<handleVars, kernelVars>>
    /\ last' = Ret("findOneClosestPoint", h, 0,
                   IF KOut(h, st) = "ok" /\ found = "none" THEN "logic_error" ELSE KOut(h, st),
                   KArg(h),
                   IF KOut(h, st) = "ok" THEN found ELSE "none", NoUnit)

\* How a call of s1774 ends: only a negative status throws.  With a null curve
\* and a positive status the uninitialised param is returned.
LocalOut(h, st) ==
    IF curve[h] = 0 /\ st = 0 THEN "crash"
    ELSE IF st < 0 THEN "runtime_error" ELSE "ok"

\* localClosestPointSearch: the kernel answers with the guess.
LocalClosestPointSearch(h, p, st) ==
    /\ alive[h]
    /\ UNCHANGED <<handleVars, kernelVars>>
    /\ last' = Ret("localClosestPointSearch", h, p, LocalOut(h, st), KArg(h),
                   IF LocalOut(h, st) # "ok" THEN 0 ELSE IF curve[h] = 0 THEN Undef ELSE p,
                   NoUnit)

\* poseError: the unit parameter, the windowed search from _st_para (the
\* kernel matches the start of the window), then distanceError (getPoint,
\* getHeading) and headingError at the matched parameter.
PoseError(h, pt, act, p, st, ub) ==
    LET c == CurveLengthCall(h, st)
        u == IF c.outcome = "ok" THEN UnitOf(h, c.len) ELSE NoUnit
        lenOk == c.outcome = "ok"
        searchOk == lenOk /\ LocalOut(h, st) = "ok"
        pointOut == IF DomainThrows(h, p, ub) THEN "out_of_range" ELSE KOut(h, st)
        outcome == IF ~lenOk THEN c.outcome
                   ELSE IF ~searchOk THEN LocalOut(h, st)
                   ELSE pointOut
        heading == HeadingOf(KTangent(GeomOf(h), p))
    IN  /\ alive[h]
        /\ has_curve_length' = [has_curve_length EXCEPT ![h] = c.has]
        /\ curve_length' = [curve_length EXCEPT ![h] = c.len]
        /\ UNCHANGED <<alive, curve, start_param, end_param, has_curvature_max,
                       curvature_max, kernelVars>>
        /\ last' = Ret("poseError", h, p, outcome,
                       IF lenOk THEN KArg(h) ELSE c.kernel,
                       IF outcome = "ok"
                       THEN <<DistanceErrorCalc(pt, KPoint(GeomOf(h), p), heading),
                              HeadingErrorCalc(act, heading), p>>
                       ELSE <<>>,
                       u)

\* The actual position poseError is called with: left of the X axis.
PosePt == <<0, 1>>
Found == {"points", "segments", "none"}
\* What a comparison with an uninitialised bound yields; nothing to choose
\* when both bounds are set.
UB(h) == IF start_param[h] = Undef \/ end_param[h] = Undef THEN BOOLEAN ELSE {FALSE}

Queries ==
    \/ GetPointCount(Q)
    \/ \E p \in Params, st \in KStatus01, ub \in UB(Q) : GetPoint(Q, p, st, ub)
    \/ \E p \in Params, st \in KStatus01, ub \in UB(Q) : GetCurvature(Q, p, st, ub)
    \/ \E p \in Params, st \in KStatus01, ub \in UB(Q) : GetVariationOfCurvature(Q, p, st, ub)
    \/ \E p \in Params, st \in KStatus01 : GetFrenetFrame(Q, p, st)
    \/ \E p \in Params, st \in KStatus01 : GetHeading(Q, p, st)
    \/ \E st \in KStatus01 : GetCurveLength(Q, st)
    \/ \E st \in KStatus01 : GetUnitParameter(Q, st)
    \/ \E st \in KStatus01 : GetCurvatureMax(Q, st)
    \/ \E st \in KStatus01, f \in Found : FindClosestPoints(Q, st, f)
    \/ \E st \in KStatus01, f \in Found : FindOneClosestPoint(Q, st, f)
    \/ \E p \in Params, st \in KStatus : LocalClosestPointSearch(Q, p, st)
    \/ \E p \in Params, st \in KStatus, ub \in UB(Q) : PoseError(Q, PosePt, 0, p, st, ub)

Next == Lifecycle

NextQuery == Lifecycle1 \/ Queries

SpecQuery == Init /\ [][NextQuery]_vars

Spec == Init /\ [][Next]_vars

\* ------------------------------------------------- the tracking-error maths
\* Actual headings, in (-pi, pi].
Headings == (1 - PI)..PI

\* headingError(_actHeading, _param) on a curve whose tangent at _param is t.
HeadingError(act, t) ==
    /\ UNCHANGED <<handleVars, kernelVars>>
    /\ last' = Ret("headingError", 0, <<act, t>>, "ok", "ok",
                   HeadingErrorCalc(act, HeadingOf(t)), NoUnit)

\* distanceError(_pt, _param) on a curve whose point at _param is cp and whose
\* tangent there is t.
DistanceError(pt, cp, t) ==
    /\ <<pt[1] - cp[1], pt[2] - cp[2]>> \in Dirs
    /\ UNCHANGED <<handleVars, kernelVars>>
    /\ last' = Ret("distanceError", 0, <<pt, cp, t>>, "ok", "ok",
                   DistanceErrorCalc(pt, cp, HeadingOf(t)), NoUnit)

NextErr ==
    \/ \E act \in Headings, t \in Dirs : HeadingError(act, t)
    \/ \E pt \in Dirs, cp \in Dirs, t \in Dirs : DistanceError(pt, cp, t)

SpecErr == Init /\ [][NextErr]_vars

\* ------------------------------------------------------------------ claims
Held == {h \in Handles : alive[h] /\ curve[h] # 0}

\* What getCurvatureMax computes on the curve a handle holds, from scratch.
FreshCurvatureMax(h) ==
    LET u == UnitOf(h, KLength(GeomOf(h)))
    IN  SetMax({0} \cup {KCurvature(GeomOf(h), p) :
                           p \in Samples(h, [kind |-> u.kind, v |-> u.v * GeoRes])})

\* C1: curve_length() and curvature_max() never return a value computed for a
\* curve held before: on a handle that holds a curve, what they return is the
\* length, and the maximum curvature, of that curve.
C1_NoStaleValue ==
    /\ (last.op = "getCurveLength" /\ last.outcome = "ok" /\ curve[last.h] # 0) =>
          last.value = KLength(GeomOf(last.h))
    /\ (last.op = "getCurvatureMax" /\ last.outcome = "ok" /\ curve[last.h] # 0) =>
          last.value = FreshCurvatureMax(last.h)

\* No two handles hold the same curve resource.
NoSharedCurve ==
    \A a \in Handles, b \in Handles :
        (a # b /\ alive[a] /\ alive[b] /\ curve[a] # 0) => curve[a] # curve[b]

\* A step made on one handle leaves the curve of every other handle as it was:
\* the same resource, not released, with the same geometry (so the same points).
OthersUntouched ==
    \A g \in Handles :
        (alive[g] /\ g # last'.h) =>
            /\ alive'[g]
            /\ curve'[g] = curve[g]
            /\ curve[g] # 0 =>
                  /\ resGeom'[curve[g]] = resGeom[curve[g]]
                  /\ relCount'[curve[g]] = relCount[curve[g]]

\* C2: no two distinct handles hold the same curve resource, and replacing the
\* curve of one handle (a copy) leaves the other's (the original's) curve and
\* points unchanged.
C2_DeepCopy == [](NoSharedCurve) /\ [][OthersUntouched]_vars

\* C2 witness: a copy constructor has run on a source that holds a curve, and
\* the copy holds a curve of its own with the same geometry.
C2_Witness ==
    /\ last.op = "copy"
    /\ alive[last.h] /\ alive[last.p]
    /\ curve[last.p] # 0 /\ curve[last.h] # 0
    /\ curve[last.h] # curve[last.p]
    /\ GeomOf(last.h) = GeomOf(last.p)

\* C3: no curve resource is released twice, every curve a handle holds is
\* still live (so the next release is of a live resource), and clear on a handle
\* without curve calls no release.
C3_NoDoubleRelease ==
    /\ \A r \in Res : relCount[r] <= 1
    /\ \A h \in Held : curve[h] \in Live
    /\ (last.op = "clear" /\ last.p = 0) => last.kernel = "none"

\* C3 witness: clear was called on a handle that held no curve (a repeated
\* clear) after a resource had been released.
C3_Witness ==
    /\ last.op = "clear"
    /\ last.p = 0
    /\ \E r \in Res : relCount[r] = 1

LayerOps == {"getPoint", "getCurvature", "getVariationOfCurvature",
             "getFrenetFrame", "getHeading"}

\* C4: every operation of the point and differential query layer called with a
\* parameter strictly outside [start_param, end_param] fails with an
\* out-of-domain error before the kernel is called.
C4_DomainChecked ==
    (/\ last.op \in LayerOps
     /\ start_param[last.h] # Undef /\ end_param[last.h] # Undef
     /\ (last.p < start_param[last.h] \/ last.p > end_param[last.h]))
    => (last.outcome = "out_of_range" /\ last.kernel = "none")

QueryOps == LayerOps \cup {"getPointCount", "getCurveLength", "findClosestPoints",
                           "findOneClosestPoint", "localClosestPointSearch",
                           "simplify", "poseError"}

\* C5: on a handle that holds no curve every query fails with an error and
\* neither passes the null curve to the kernel nor dereferences it.
C5_EmptyHandleFails ==
    (last.op \in QueryOps /\ alive[last.h] /\ curve[last.h] = 0)
    => (last.outcome \notin {"ok", "crash"} /\ last.kernel # "null")

\* C6: for an actual heading in (-pi, pi] and a curve heading in [-pi, pi],
\* headingError returns a value in (-pi, pi].
C6_HeadingErrorRange ==
    (last.op = "headingError" /\ last.p[2] # <<0, 0>>)
    => (-PI < last.value /\ last.value <= PI)

\* C7: distanceError is +|horizontal error| when the actual point is left of
\* the tangent (positive cross product of tangent and error) and
\* -|horizontal error| when it is right of it.
C7_SignedBySide ==
    last.op = "distanceError" =>
        LET pt == last.p[1]
            cp == last.p[2]
            t == last.p[3]
            ex == pt[1] - cp[1]
            ey == pt[2] - cp[2]
            cross == t[1] * ey - t[2] * ex
        IN  /\ last.value.norm2 = ex * ex + ey * ey
            /\ cross > 0 => ~last.value.neg
            /\ cross < 0 => last.value.neg

\* C8: unit_parameter() fails with a computation error when the curve length
\* is zero, and so do curvature_max (when it computes) and pose_error.
C8_ZeroLengthFails ==
    (/\ \/ last.op \in {"getUnitParameter", "poseError"}
        \/ last.op = "getCurvatureMax" /\ last.kernel # "none"
     /\ has_curve_length[last.h]
     /\ curve_length[last.h] = 0)
    => last.outcome = "runtime_error"

\* C9: a handle that holds a curve stores the parameter domain the kernel
\* reports for that curve, with start_param <= end_param.
C9_DomainOfHeldCurve ==
    \A h \in Held :
        /\ start_param[h] = 0
        /\ end_param[h] = KEnd(GeomOf(h))
        /\ start_param[h] <= end_param[h]

\* C10: no curve resource is leaked: every resource that was created and not
\* released is held by a handle.
C10_NoLeak ==
    \A r \in Allocated : relCount[r] = 0 => \E h \in Held : curve[h] = r
====
